---------------------------- MODULE Spec2Model ----------------------------
(***************************************************************************)
(* A model of the evidence-handling core of DigitalForensicsSuite:         *)
(*   - calculate_hash_from_file and verify_integrity   (src/acquisition.py)*)
(*   - perform_forensic_imaging                        (src/acquisition.py)*)
(*   - perform_file_carving                            (src/analysis.py)   *)
(* Each of the three has its own specification (SpecVerify, SpecImaging,   *)
(* SpecCarve); the variables of the other two stay at their initial value. *)
(***************************************************************************)
EXTENDS Integers, Sequences, FiniteSets, TLC

(***************************************************************************)
(* Bounds of the model.                                                    *)
(***************************************************************************)
\* longest byte source that is hashed
MaxLen == 3
\* largest block size read by calculate_hash_from_file
MaxBlock == 2
\* most lines the imaging child writes in one run
MaxWrites == 3
\* lines a pipe holds before a write to it blocks
PipeCapacity == 1
\* most pieces (headers, footers, payloads) a carved buffer is made of
MaxPieces == 3
\* the longest source or image file the script run verifies
MaxMainLen == 1
\* most ForensicWorker objects the window creates in one session
MaxWorkers == 3

VARIABLES
    \* ---- the two byte sources of a verification -------------------------
    srcContent,     \* bytes of original_source
    imgContent,     \* bytes of image_file
    BLOCK_SIZE,     \* acquisition.py:7, scaled down to 1..MaxBlock
    \* ---- calculate_hash_from_file (one call at a time) -------------------
    hpc,            \* "idle" | "open" | "read" | "done"
    hfile,          \* "image" | "source": the file_path argument
    hpos,           \* position of the open file object f
    hash_obj,       \* all data fed to hash_obj.update so far
    hfed,           \* the chunks fed to hash_obj.update, in feeding order
    hfault,         \* "none" | "open" | "read": the exception that was raised
    hresult,        \* the value returned
    \* ---- verify_integrity ------------------------------------------------
    vpc,            \* "start" | "hash_image" | "hash_source" | "check" | "done"
    image_hash,
    source_hash,
    hcalls,         \* the completed calculate_hash_from_file calls of this run
    vbranch,        \* "none" | "hashfail" | "match" | "mismatch"
    vret,           \* "none" | "True" | "False": the value returned
    voutcomes,      \* every <<branch, returned value>> seen in a finished run
    \* ---- perform_forensic_imaging: the controller ------------------------
    ipc,            \* "start" | "drain" | "wait" | "check" | "done"
    returncode,     \* process.returncode: <<>> until wait() sets it, then <<code>>
    statusPrinted,  \* the lines printed as "STATUS: ..."
    error_output,   \* what process.stderr.read() returned at line 66
    ikind,          \* "none" | "ok" | "nonzero" | "notfound" | "exception"
    iresult,        \* the (success, log_path) pair returned
    iraised,        \* an exception left perform_forensic_imaging
    ioutcomes,      \* every <<kind, returned pair>> seen in a finished call
    \* ---- perform_forensic_imaging: the child process ---------------------
    childState,     \* "none" | "running" | "exited"
    childScript,    \* the writes the child still has to make, in order
    childPlan,      \* the exit code the child ends with when it is not killed
    childCode,      \* <<>> while it has not exited, then <<exit status>>
    stdoutPipe,     \* lines written to stdout and not read
    stderrPipe,     \* lines written to stderr and not read
    stderrWritten,  \* every line the child wrote to stderr
    \* ---- perform_file_carving --------------------------------------------
    buffer,         \* the bytes of the image, as f.read() returns them
    signatures,     \* the registry passed in, in iteration order
    cpc,            \* "start" | "open" | "scan" | "done"
    sigIdx,         \* which entry of signatures the outer loop is at
    offset,         \* the cursor of the inner loop
    carved_count,
    files,          \* the output directory: a set of [path, data]
    artifacts,      \* the writes that completed, in order, with their positions
    cfault,         \* "none" | "makedirs" | "read" | "open" | "write"
    craised,        \* an exception left perform_file_carving
    cret,           \* <<>> until the function returns, then <<count>>
    trail,          \* the iterations of the while loops so far, in order
    prevRun,        \* <<>>, or what the run before this one returned and wrote
    \* ---- acquisition.py run as a script (__main__) -----------------------
    mpc,            \* "acquire" | "branch" | "verify" | "end"
    success,        \* "unset" until line 121 assigns it, then "True" | "False"
    log_path,       \* "unset" until line 121 assigns it
    verification_success,   \* "unset" until line 125 assigns it
    \* ---- main.py: DigitalForensicsSuite and its ForensicWorker threads ----
    current_image_path,     \* "None", or the image that was loaded
    workers,        \* every ForensicWorker created so far, in creation order
    current_worker, \* 0 for None, or the position in workers of the one held
    events,         \* finished signals queued to the GUI thread, oldest first
    app             \* "running" | "aborted"

hashVars == <<hpc, hfile, hpos, hash_obj, hfed, hfault, hresult>>
verifyVars == <<srcContent, imgContent, BLOCK_SIZE, vpc, image_hash,
                source_hash, hcalls, vbranch, vret, voutcomes>>
imagingVars == <<ipc, returncode, statusPrinted, error_output, ikind, iresult,
                 iraised, ioutcomes>>
childVars == <<childState, childScript, childPlan, childCode, stdoutPipe,
               stderrPipe, stderrWritten>>
carveVars == <<buffer, signatures, cpc, sigIdx, offset, carved_count, files,
               artifacts, cfault, craised, cret, trail, prevRun>>
mainVars == <<mpc, success, log_path, verification_success>>
guiVars == <<current_image_path, workers, current_worker, events, app>>
vars == <<hashVars, verifyVars, imagingVars, childVars, carveVars, mainVars, guiVars>>

(***************************************************************************)
(* Values.                                                                 *)
(***************************************************************************)
Byte == {0, 1}

Min(a, b) == IF a < b THEN a ELSE b

\* every byte string of at most n bytes
BytesUpTo(n) == UNION {[1..k -> Byte] : k \in 0..n}

HASH_ALGORITHM == "sha256"

\* Python's None as a returned hash, and the value of a variable not yet bound
None == [none |-> TRUE, algorithm |-> "", hex |-> <<>>]
Unset == [none |-> TRUE, algorithm |-> "unset", hex |-> <<>>]

(***************************************************************************)
(* hashlib.  The state of a hash object is abstracted by the concatenation *)
(* of everything fed to it (hashlib: repeated update calls are equivalent  *)
(* to one call with the concatenation), and the digest is an injective     *)
(* image of that state tagged with the algorithm: the hash is taken to be  *)
(* collision-free.                                                         *)
(***************************************************************************)
HashNew(algorithm) == <<>>

Update_LastChunkOnly(h, data) == data

HashUpdate(h, data) == h \o data

Hexdigest(algorithm, h) == [none |-> FALSE, algorithm |-> algorithm, hex |-> h]

\* truth value of a returned hash: None is falsy, a hex digest is a non-empty string
Falsy(h) == h.none

(***************************************************************************)
(* calculate_hash_from_file                                                *)
(***************************************************************************)
Content(file) == IF file = "image" THEN imgContent ELSE srcContent

\* f.read(BLOCK_SIZE) of a buffered binary file: size bytes, fewer only at the end
FileRead(content, pos, size) == SubSeq(content, pos + 1, Min(pos + size, Len(content)))

LoopEnds_OnShortRead(data, size) == Len(data) < size

\* line 19: if not data: break
LoopEnds(data, size) == data = <<>>

OnHashException_Partial(algorithm, h) == Hexdigest(algorithm, h)

\* the except branch: the accumulator is dropped and None is returned
OnHashException(algorithm, h) == None

\* open(file_path, 'rb') succeeds
HashOpenOk ==
    /\ hpc = "open"
    /\ hpc' = "read"
    /\ hpos' = 0
    /\ UNCHANGED <<hfile, hash_obj, hfed, hfault, hresult>>
    /\ UNCHANGED <<verifyVars, imagingVars, childVars, carveVars, mainVars, guiVars>>

\* open(file_path, 'rb') raises
HashOpenFail ==
    /\ hpc = "open"
    /\ hpc' = "done"
    /\ hfault' = "open"
    /\ hresult' = OnHashException(HASH_ALGORITHM, hash_obj)
    /\ UNCHANGED <<hfile, hpos, hash_obj, hfed>>
    /\ UNCHANGED <<verifyVars, imagingVars, childVars, carveVars, mainVars, guiVars>>

\* one iteration of the loop: a non-empty chunk is read and fed
HashReadChunk ==
    /\ hpc = "read"
    /\ LET data == FileRead(Content(hfile), hpos, BLOCK_SIZE) IN
        /\ ~LoopEnds(data, BLOCK_SIZE)
        /\ hash_obj' = HashUpdate(hash_obj, data)
        /\ hfed' = Append(hfed, data)
        /\ hpos' = hpos + Len(data)
    /\ UNCHANGED <<hpc, hfile, hfault, hresult>>
    /\ UNCHANGED <<verifyVars, imagingVars, childVars, carveVars, mainVars, guiVars>>

\* the read returns no data: break, and return hash_obj.hexdigest()
HashReadEof ==
    /\ hpc = "read"
    /\ LoopEnds(FileRead(Content(hfile), hpos, BLOCK_SIZE), BLOCK_SIZE)
    /\ hpc' = "done"
    /\ hresult' = Hexdigest(HASH_ALGORITHM, hash_obj)
    /\ UNCHANGED <<hfile, hpos, hash_obj, hfed, hfault>>
    /\ UNCHANGED <<verifyVars, imagingVars, childVars, carveVars, mainVars, guiVars>>

\* f.read raises after zero or more chunks were fed
HashReadFail ==
    /\ hpc = "read"
    /\ hpc' = "done"
    /\ hfault' = "read"
    /\ hresult' = OnHashException(HASH_ALGORITHM, hash_obj)
    /\ UNCHANGED <<hfile, hpos, hash_obj, hfed>>
    /\ UNCHANGED <<verifyVars, imagingVars, childVars, carveVars, mainVars, guiVars>>

\* entry of calculate_hash_from_file(file, HASH_ALGORITHM)
HashCall(file) ==
    /\ hpc' = "open"
    /\ hfile' = file
    /\ hpos' = 0
    /\ hash_obj' = HashNew(HASH_ALGORITHM)
    /\ hfed' = <<>>
    /\ hfault' = "none"
    /\ hresult' = Unset

HashCallRecord == [file |-> hfile, fault |-> hfault, result |-> hresult]

(***************************************************************************)
(* verify_integrity                                                        *)
(***************************************************************************)
HashesMissing_NoCheck(ih, sh) == FALSE

\* line 90: not image_hash or not source_hash
HashesMissing(ih, sh) == Falsy(ih) \/ Falsy(sh)

\* line 85: image_hash = calculate_hash_from_file(image_file, HASH_ALGORITHM)
VerifyHashImage ==
    /\ vpc = "start"
    /\ vpc' = "hash_image"
    /\ HashCall("image")
    /\ UNCHANGED <<srcContent, imgContent, BLOCK_SIZE, image_hash, source_hash,
                   hcalls, vbranch, vret, voutcomes>>
    /\ UNCHANGED <<imagingVars, childVars, carveVars, mainVars, guiVars>>

\* line 88: source_hash = calculate_hash_from_file(original_source, HASH_ALGORITHM)
VerifyHashSource ==
    /\ vpc = "hash_image"
    /\ hpc = "done"
    /\ image_hash' = hresult
    /\ hcalls' = Append(hcalls, HashCallRecord)
    /\ vpc' = "hash_source"
    /\ HashCall("source")
    /\ UNCHANGED <<srcContent, imgContent, BLOCK_SIZE, source_hash, vbranch,
                   vret, voutcomes>>
    /\ UNCHANGED <<imagingVars, childVars, carveVars, mainVars, guiVars>>

VerifyGotSource ==
    /\ vpc = "hash_source"
    /\ hpc = "done"
    /\ source_hash' = hresult
    /\ hcalls' = Append(hcalls, HashCallRecord)
    /\ vpc' = "check"
    /\ hpc' = "idle"
    /\ UNCHANGED <<hfile, hpos, hash_obj, hfed, hfault, hresult>>
    /\ UNCHANGED <<srcContent, imgContent, BLOCK_SIZE, image_hash, vbranch,
                   vret, voutcomes>>
    /\ UNCHANGED <<imagingVars, childVars, carveVars, mainVars, guiVars>>

\* lines 90-103: the three returns
VerifyCheck ==
    /\ vpc = "check"
    /\ vpc' = "done"
    /\ IF HashesMissing(image_hash, source_hash)
         THEN vbranch' = "hashfail" /\ vret' = "False"
         ELSE IF source_hash = image_hash
                THEN vbranch' = "match" /\ vret' = "True"
                ELSE vbranch' = "mismatch" /\ vret' = "False"
    /\ voutcomes' = voutcomes \cup {<<vbranch', vret'>>}
    /\ UNCHANGED hashVars
    /\ UNCHANGED <<srcContent, imgContent, BLOCK_SIZE, image_hash, source_hash,
                   hcalls>>
    /\ UNCHANGED <<imagingVars, childVars, carveVars, mainVars, guiVars>>

\* the caller verifies another image of the same source
VerifyAgain ==
    /\ vpc = "done"
    /\ vpc' = "start"
    /\ imgContent' \in BytesUpTo(MaxLen)
    /\ image_hash' = Unset
    /\ source_hash' = Unset
    /\ hcalls' = <<>>
    /\ vbranch' = "none"
    /\ vret' = "none"
    /\ UNCHANGED hashVars
    /\ UNCHANGED <<srcContent, BLOCK_SIZE, voutcomes>>
    /\ UNCHANGED <<imagingVars, childVars, carveVars, mainVars, guiVars>>

\* no call of calculate_hash_from_file or verify_integrity has been made
VerifyIdle ==
    /\ hpc = "idle"
    /\ hfile = "image"
    /\ hpos = 0
    /\ hash_obj = <<>>
    /\ hfed = <<>>
    /\ hfault = "none"
    /\ hresult = Unset
    /\ vpc = "start"
    /\ image_hash = Unset
    /\ source_hash = Unset
    /\ hcalls = <<>>
    /\ vbranch = "none"
    /\ vret = "none"
    /\ voutcomes = {}

\* the returned pair before perform_forensic_imaging has returned
Pending == [success |-> "pending", log_path |-> "pending"]

\* no call of perform_forensic_imaging has been made
ImagingIdle ==
    /\ ipc = "start"
    /\ returncode = <<>>
    /\ statusPrinted = <<>>
    /\ error_output = <<>>
    /\ ikind = "none"
    /\ iresult = Pending
    /\ iraised = FALSE
    /\ ioutcomes = {}
    /\ childState = "none"
    /\ childScript = <<>>
    /\ childPlan = 0
    /\ childCode = <<>>
    /\ stdoutPipe = <<>>
    /\ stderrPipe = <<>>
    /\ stderrWritten = <<>>

\* the script of acquisition.py has not run
MainIdle ==
    /\ mpc = "acquire"
    /\ success = "unset"
    /\ log_path = "unset"
    /\ verification_success = "unset"

\* lines 90-94: the window as __init__ leaves it
GuiIdle ==
    /\ current_image_path = "None"
    /\ workers = <<>>
    /\ current_worker = 0
    /\ events = <<>>
    /\ app = "running"

\* no call of perform_file_carving has been made
CarveIdle ==
    /\ cpc = "start"
    /\ sigIdx = 1
    /\ offset = 0
    /\ carved_count = 0
    /\ files = {}
    /\ artifacts = <<>>
    /\ cfault = "none"
    /\ craised = FALSE
    /\ cret = <<>>
    /\ trail = <<>>
    /\ prevRun = <<>>

InitVerify ==
    /\ srcContent \in BytesUpTo(MaxLen)
    /\ imgContent \in BytesUpTo(MaxLen)
    /\ BLOCK_SIZE \in 1..MaxBlock
    /\ VerifyIdle
    /\ ImagingIdle
    /\ buffer = <<>>
    /\ signatures = <<>>
    /\ CarveIdle
    /\ MainIdle
    /\ GuiIdle

NextVerify ==
    \/ HashOpenOk
    \/ HashOpenFail
    \/ HashReadChunk
    \/ HashReadEof
    \/ HashReadFail
    \/ VerifyHashImage
    \/ VerifyHashSource
    \/ VerifyGotSource
    \/ VerifyCheck
    \/ VerifyAgain

SpecVerify == InitVerify /\ [][NextVerify]_vars

(***************************************************************************)
(* perform_forensic_imaging: the child process (dcfldd).  The child is     *)
(* opaque to the source; it is a program that writes lines to its two      *)
(* streams and exits.  A write blocks while the pipe it goes to is full.   *)
(***************************************************************************)
\* a line with a progress marker, a line without one, a line on stdout
StderrLines == {"512 blocks copied", "dcfldd: Permission denied"}
StdoutLines == {"data"}

Writes == [stream : {"err"}, line : StderrLines]
              \cup [stream : {"out"}, line : StdoutLines]

ChildPrograms == UNION {[1..k -> Writes] : k \in 0..MaxWrites}

\* exit codes of a child that ends by itself
ExitCodes == {0, 1}
\* signals that end a child (SIGKILL, SIGTERM): Popen reports -signal
Signals == {9, 15}

PipeOf(stream) == IF stream = "out" THEN stdoutPipe ELSE stderrPipe

\* the child's next write cannot proceed: the pipe it goes to is full
ChildBlocked ==
    /\ childState = "running"
    /\ childScript /= <<>>
    /\ Len(PipeOf(Head(childScript).stream)) >= PipeCapacity

ChildWrite ==
    /\ childState = "running"
    /\ childScript /= <<>>
    /\ ~ChildBlocked
    /\ LET w == Head(childScript) IN
        /\ IF w.stream = "out"
             THEN /\ stdoutPipe' = Append(stdoutPipe, w.line)
                  /\ UNCHANGED <<stderrPipe, stderrWritten>>
             ELSE /\ stderrPipe' = Append(stderrPipe, w.line)
                  /\ stderrWritten' = Append(stderrWritten, w.line)
                  /\ UNCHANGED stdoutPipe
    /\ childScript' = Tail(childScript)
    /\ UNCHANGED <<childState, childPlan, childCode>>
    /\ UNCHANGED <<imagingVars, hashVars, verifyVars, carveVars, mainVars, guiVars>>

\* the child has written everything and exits with its exit code
ChildExit ==
    /\ childState = "running"
    /\ childScript = <<>>
    /\ childState' = "exited"
    /\ childCode' = <<childPlan>>
    /\ UNCHANGED <<childScript, childPlan, stdoutPipe, stderrPipe, stderrWritten>>
    /\ UNCHANGED <<imagingVars, hashVars, verifyVars, carveVars, mainVars, guiVars>>

\* cancellation: the child is terminated by a signal, wherever it is
ChildKilled ==
    /\ childState = "running"
    /\ childState' = "exited"
    /\ \E sig \in Signals : childCode' = <<-sig>>
    /\ UNCHANGED <<childScript, childPlan, stdoutPipe, stderrPipe, stderrWritten>>
    /\ UNCHANGED <<imagingVars, hashVars, verifyVars, carveVars, mainVars, guiVars>>

(***************************************************************************)
(* perform_forensic_imaging: the controller                                *)
(***************************************************************************)
\* the exceptions subprocess.Popen raises when the child cannot be started
SpawnExceptions == {"FileNotFoundError", "PermissionError"}

\* both are subclasses of Exception (of OSError)
IsException(exc) == exc \in {"FileNotFoundError", "PermissionError"}

\* lines 73-78: the except clause an exception of the try block reaches
ExceptClause(exc) ==
    IF exc = "FileNotFoundError" THEN "notfound"
    ELSE IF IsException(exc) THEN "exception"
    ELSE "uncaught"

\* lines 75 and 78: what either except clause returns
FailureResult == [success |-> "False", log_path |-> "None"]

\* line 58: 'copied' in line or 'STATUS:' in line
HasMarker(line) == line \in {"512 blocks copied"}

ExitFailed_PositiveOnly(code) == code > 0

\* line 65: process.returncode != 0
ExitFailed(code) == code /= 0

\* line 50: Popen starts the child, both streams attached to pipes
ImagingSpawn ==
    /\ ipc = "start"
    /\ ipc' = "drain"
    /\ childState' = "running"
    /\ childScript' \in ChildPrograms
    /\ childPlan' \in ExitCodes
    /\ UNCHANGED <<childCode, stdoutPipe, stderrPipe, stderrWritten>>
    /\ UNCHANGED <<returncode, statusPrinted, error_output, ikind, iresult,
                   iraised, ioutcomes>>
    /\ UNCHANGED <<hashVars, verifyVars, carveVars, mainVars, guiVars>>

\* line 50 raises: no child; the matching except clause returns (False, None)
ImagingSpawnFails ==
    /\ ipc = "start"
    /\ \E exc \in SpawnExceptions :
        /\ ikind' = ExceptClause(exc)
        /\ IF ExceptClause(exc) = "uncaught"
             THEN iraised' = TRUE /\ UNCHANGED <<iresult, ioutcomes>>
             ELSE /\ iraised' = FALSE
                  /\ iresult' = FailureResult
                  /\ ioutcomes' = ioutcomes \cup {<<ExceptClause(exc), FailureResult>>}
    /\ ipc' = "done"
    /\ UNCHANGED <<returncode, statusPrinted, error_output>>
    /\ UNCHANGED <<childVars, hashVars, verifyVars, carveVars, mainVars, guiVars>>

\* lines 57-60: one iteration of `for line in process.stderr`
ImagingReadLine ==
    /\ ipc = "drain"
    /\ stderrPipe /= <<>>
    /\ LET line == Head(stderrPipe) IN
        statusPrinted' = IF HasMarker(line)
                           THEN Append(statusPrinted, line)
                           ELSE statusPrinted
    /\ stderrPipe' = Tail(stderrPipe)
    /\ UNCHANGED <<ipc, returncode, error_output, ikind, iresult, iraised,
                   ioutcomes>>
    /\ UNCHANGED <<childState, childScript, childPlan, childCode, stdoutPipe,
                   stderrWritten>>
    /\ UNCHANGED <<hashVars, verifyVars, carveVars, mainVars, guiVars>>

\* the loop ends at end of file: the pipe is empty and its write end is closed
ImagingStderrEof ==
    /\ ipc = "drain"
    /\ stderrPipe = <<>>
    /\ childState = "exited"
    /\ ipc' = "wait"
    /\ UNCHANGED <<returncode, statusPrinted, error_output, ikind, iresult,
                   iraised, ioutcomes>>
    /\ UNCHANGED <<childVars, hashVars, verifyVars, carveVars, mainVars, guiVars>>

\* line 63: process.wait() returns once the child has exited
ImagingWait ==
    /\ ipc = "wait"
    /\ childState = "exited"
    /\ returncode' = childCode
    /\ ipc' = "check"
    /\ UNCHANGED <<statusPrinted, error_output, ikind, iresult, iraised,
                   ioutcomes>>
    /\ UNCHANGED <<childVars, hashVars, verifyVars, carveVars, mainVars, guiVars>>

\* lines 65-68: non-zero return code; the rest of stderr is read and reported
ImagingFailed ==
    /\ ipc = "check"
    /\ ExitFailed(returncode[1])
    /\ error_output' = stderrPipe
    /\ stderrPipe' = <<>>
    /\ ikind' = "nonzero"
    /\ iresult' = [success |-> "False", log_path |-> "None"]
    /\ ioutcomes' = ioutcomes \cup {<<ikind', iresult'>>}
    /\ ipc' = "done"
    /\ UNCHANGED <<returncode, statusPrinted, iraised>>
    /\ UNCHANGED <<childState, childScript, childPlan, childCode, stdoutPipe,
                   stderrWritten>>
    /\ UNCHANGED <<hashVars, verifyVars, carveVars, mainVars, guiVars>>

\* lines 70-71: return True, log_path
ImagingSucceeded ==
    /\ ipc = "check"
    /\ ~ExitFailed(returncode[1])
    /\ ikind' = "ok"
    /\ iresult' = [success |-> "True", log_path |-> "log_path"]
    /\ ioutcomes' = ioutcomes \cup {<<ikind', iresult'>>}
    /\ ipc' = "done"
    /\ UNCHANGED <<returncode, statusPrinted, error_output, iraised>>
    /\ UNCHANGED <<childVars, hashVars, verifyVars, carveVars, mainVars, guiVars>>

\* the caller starts another acquisition
ImagingAgain ==
    /\ ipc = "done"
    /\ ipc' = "start"
    /\ returncode' = <<>>
    /\ statusPrinted' = <<>>
    /\ error_output' = <<>>
    /\ ikind' = "none"
    /\ iresult' = Pending
    /\ childState' = "none"
    /\ childScript' = <<>>
    /\ childPlan' = 0
    /\ childCode' = <<>>
    /\ stdoutPipe' = <<>>
    /\ stderrPipe' = <<>>
    /\ stderrWritten' = <<>>
    /\ iraised' = FALSE
    /\ UNCHANGED ioutcomes
    /\ UNCHANGED <<hashVars, verifyVars, carveVars, mainVars, guiVars>>

InitImaging ==
    /\ srcContent = <<>>
    /\ imgContent = <<>>
    /\ BLOCK_SIZE = 1
    /\ VerifyIdle
    /\ ImagingIdle
    /\ buffer = <<>>
    /\ signatures = <<>>
    /\ CarveIdle
    /\ MainIdle
    /\ GuiIdle

NextImaging ==
    \/ ImagingSpawn
    \/ ImagingSpawnFails
    \/ ImagingReadLine
    \/ ImagingStderrEof
    \/ ImagingWait
    \/ ImagingFailed
    \/ ImagingSucceeded
    \/ ImagingAgain
    \/ ChildWrite
    \/ ChildExit
    \/ ChildKilled

SpecImaging == InitImaging /\ [][NextImaging]_vars

(***************************************************************************)
(* perform_file_carving                                                    *)
(***************************************************************************)
\* analysis.py:30-46, in the order the dict is iterated
FILE_SIGNATURES == <<
    [name |-> "JPEG", header |-> <<255, 216, 255, 224>>,
     footer |-> <<255, 217>>, ext |-> "jpg"],
    [name |-> "PDF", header |-> <<37, 80, 68, 70>>,
     footer |-> <<37, 37, 69, 79, 70>>, ext |-> "pdf"],
    [name |-> "GIF", header |-> <<71, 73, 70, 56, 57, 97>>,
     footer |-> <<0, 59>>, ext |-> "gif"] >>

\* b"payload"
Payload == <<112, 97, 121, 108, 111, 97, 100>>

\* what the buffers of the model are concatenated from
Pieces ==
    {FILE_SIGNATURES[i].header : i \in 1..Len(FILE_SIGNATURES)}
        \cup {FILE_SIGNATURES[i].footer : i \in 1..Len(FILE_SIGNATURES)}
        \cup {Payload, <<255>>}
        \cup {FILE_SIGNATURES[1].header \o Payload \o FILE_SIGNATURES[1].footer}

RECURSIVE Flatten(_)
Flatten(pieces) ==
    IF pieces = <<>> THEN <<>> ELSE Head(pieces) \o Flatten(Tail(pieces))

Buffers == {Flatten(ps) : ps \in UNION {[1..k -> Pieces] : k \in 0..MaxPieces}}

\* sub occurs in buf at 0-based position p
OccursAt(buf, sub, p) ==
    /\ p >= 0
    /\ p + Len(sub) <= Len(buf)
    /\ SubSeq(buf, p + 1, p + Len(sub)) = sub

\* bytes.find(sub, start): the lowest position >= start where sub occurs, or -1
Find(buf, sub, start) ==
    LET found == {p \in start..(Len(buf) - Len(sub)) : OccursAt(buf, sub, p)}
    IN  IF found = {} THEN -1
        ELSE CHOOSE p \in found : \A q \in found : p <= q

\* buffer[a:b] for 0 <= a <= b <= len(buffer)
Slice(buf, a, b) == SubSeq(buf, a + 1, b)

Span_WithoutFooter(buf, header_pos, footer_pos, footer) ==
    Slice(buf, header_pos, footer_pos)

\* line 134: carved_data = buffer[header_pos : footer_pos + len(footer)]
CarvedData(buf, header_pos, footer_pos, footer) ==
    Slice(buf, header_pos, footer_pos + Len(footer))

\* line 136: carved_<file_type>_<carved_count>.<ext>
OutputFilename(sig, count) == <<"carved", sig.name, count, sig.ext>>

\* line 127 and line 131 for the current signature and cursor
HeaderPos == Find(buffer, signatures[sigIdx].header, offset)
FooterPos_Adjacent ==
    IF OccursAt(buffer, signatures[sigIdx].footer,
                HeaderPos + Len(signatures[sigIdx].header))
        THEN HeaderPos + Len(signatures[sigIdx].header)
        ELSE -1
FooterPos ==
    Find(buffer, signatures[sigIdx].footer,
         HeaderPos + Len(signatures[sigIdx].header))

\* a file is written: whatever was at that path is replaced
WriteFile(fs, path, data) ==
    {f \in fs : f.path /= path} \cup {[path |-> path, data |-> data]}

CountAtStart_Kept(previous) == previous

\* line 112: carved_count = 0, whatever an earlier run counted
CountAtStart(previous) == 0

NextCount_Same(count) == count

\* line 141: carved_count += 1
NextCount(count) == count + 1

OffsetAfterCarve_PastHeader(header_pos, header, footer_pos, footer) ==
    header_pos + Len(header)

\* line 143: offset = footer_pos + len(footer)
OffsetAfterCarve(header_pos, header, footer_pos, footer) ==
    footer_pos + Len(footer)

OffsetAfterSkip_ToEnd(buf, header_pos, header) == Len(buf)

\* line 145: offset = header_pos + len(header)
OffsetAfterSkip(buf, header_pos, header) == header_pos + Len(header)

OffsetForSignature_Kept(previous) == previous

\* line 125: offset = 0 at the start of every signature
OffsetForSignature(previous) == 0

\* iterations of the while loop made so far for signature j
Iterations(j) == Cardinality({i \in 1..Len(trail) : trail[i].sig = j})

\* The loop of one signature is followed for at most this many iterations, one
\* more than a scan whose cursor grows in every iteration can make; a loop that
\* gets there does not end in the code.
LoopCap(buf) == Len(buf) + 2

InLoop == cpc = "scan" /\ Iterations(sigIdx) < LoopCap(buffer)

carveOthers == <<hashVars, verifyVars, imagingVars, childVars, mainVars, guiVars>>

\* lines 109-110: the output directory exists or is created
CarveMakedirs ==
    /\ cpc = "start"
    /\ cpc' = "open"
    /\ UNCHANGED <<buffer, signatures, sigIdx, offset, carved_count, files,
                   artifacts, cfault, craised, cret, trail, prevRun>>
    /\ UNCHANGED carveOthers

\* line 110: os.makedirs raises, outside the try: the exception leaves the function
CarveMakedirsFails ==
    /\ cpc = "start"
    /\ cpc' = "done"
    /\ cfault' = "makedirs"
    /\ craised' = TRUE
    /\ UNCHANGED <<buffer, signatures, sigIdx, offset, carved_count, files,
                   artifacts, cret, trail, prevRun>>
    /\ UNCHANGED carveOthers

\* lines 112-125: the image is opened and read whole; an empty registry ends at once
CarveRead ==
    /\ cpc = "open"
    /\ sigIdx' = 1
    /\ offset' = OffsetForSignature(offset)
    /\ carved_count' = CountAtStart(carved_count)
    /\ IF signatures = <<>>
         THEN cpc' = "done" /\ cret' = <<carved_count'>>
         ELSE cpc' = "scan" /\ cret' = cret
    /\ UNCHANGED <<buffer, signatures, files, artifacts, cfault, craised, trail,
                   prevRun>>
    /\ UNCHANGED carveOthers

\* lines 115-116 raise: line 151 catches, line 153 returns 0
CarveReadFails ==
    /\ cpc = "open"
    /\ cpc' = "done"
    /\ cfault' = "read"
    /\ cret' = <<0>>
    /\ UNCHANGED <<buffer, signatures, sigIdx, offset, carved_count, files,
                   artifacts, craised, trail, prevRun>>
    /\ UNCHANGED carveOthers

\* lines 127-129: no header at or after the cursor; the next signature, or the
\* return of carved_count at line 149 after the last one
CarveNoHeader ==
    /\ InLoop
    /\ HeaderPos = -1
    /\ trail' = Append(trail, [sig |-> sigIdx, kind |-> "end", cursor |-> offset,
                               header_pos |-> -1, next |-> offset])
    /\ IF sigIdx < Len(signatures)
         THEN /\ sigIdx' = sigIdx + 1
              /\ offset' = OffsetForSignature(offset)
              /\ UNCHANGED <<cpc, cret>>
         ELSE /\ cpc' = "done"
              /\ cret' = <<carved_count>>
              /\ UNCHANGED <<sigIdx, offset>>
    /\ UNCHANGED <<buffer, signatures, carved_count, files, artifacts, cfault,
                   craised, prevRun>>
    /\ UNCHANGED carveOthers

\* lines 131-143: header and footer found, the span is written and counted
CarveExtract ==
    /\ InLoop
    /\ HeaderPos /= -1
    /\ FooterPos /= -1
    /\ LET sig == signatures[sigIdx]
           carved_data == CarvedData(buffer, HeaderPos, FooterPos, sig.footer)
           output_filename == OutputFilename(sig, carved_count)
       IN /\ files' = WriteFile(files, output_filename, carved_data)
          /\ artifacts' = Append(artifacts,
                 [path |-> output_filename, data |-> carved_data,
                  sig |-> sigIdx, cursor |-> offset,
                  header_pos |-> HeaderPos, footer_pos |-> FooterPos])
          /\ carved_count' = NextCount(carved_count)
          /\ offset' = OffsetAfterCarve(HeaderPos, sig.header, FooterPos, sig.footer)
          /\ trail' = Append(trail,
                 [sig |-> sigIdx, kind |-> "carve", cursor |-> offset,
                  header_pos |-> HeaderPos, next |-> offset'])
    /\ UNCHANGED <<buffer, signatures, cpc, sigIdx, cfault, craised, cret, prevRun>>
    /\ UNCHANGED carveOthers

\* lines 137-138 raise: open fails and leaves no file, or the write fails and
\* leaves the file that open created empty; line 151 catches, line 153 returns 0
CarveWriteFails ==
    /\ InLoop
    /\ HeaderPos /= -1
    /\ FooterPos /= -1
    /\ \E fault \in {"open", "write"} :
        /\ cfault' = fault
        /\ files' = IF fault = "open" THEN files
                    ELSE WriteFile(files,
                            OutputFilename(signatures[sigIdx], carved_count), <<>>)
    /\ cpc' = "done"
    /\ cret' = <<0>>
    /\ UNCHANGED <<buffer, signatures, sigIdx, offset, carved_count, artifacts,
                   craised, trail, prevRun>>
    /\ UNCHANGED carveOthers

\* lines 144-145: a header with no footer after it; the cursor passes the header
CarveSkipHeader ==
    /\ InLoop
    /\ HeaderPos /= -1
    /\ FooterPos = -1
    /\ offset' = OffsetAfterSkip(buffer, HeaderPos, signatures[sigIdx].header)
    /\ trail' = Append(trail, [sig |-> sigIdx, kind |-> "skip", cursor |-> offset,
                               header_pos |-> HeaderPos, next |-> offset'])
    /\ UNCHANGED <<buffer, signatures, cpc, sigIdx, carved_count, files,
                   artifacts, cfault, craised, cret, prevRun>>
    /\ UNCHANGED carveOthers

\* the caller runs the carving again on the same image with the same registry
\* and an empty output directory, after a run that returned without a failure
CarveAgain ==
    /\ cpc = "done"
    /\ cfault = "none"
    /\ prevRun = <<>>
    /\ prevRun' = <<[count |-> cret, artifacts |-> artifacts, files |-> files]>>
    /\ cpc' = "start"
    /\ files' = {}
    /\ artifacts' = <<>>
    /\ trail' = <<>>
    /\ cret' = <<>>
    /\ UNCHANGED <<buffer, signatures, sigIdx, offset, carved_count, cfault,
                   craised>>
    /\ UNCHANGED carveOthers

\* lines 125-145 for one signature alone: the spans the while loop extracts from
\* buf for sig when it starts with its cursor at cursor
RECURSIVE ScanAlone(_, _, _)
ScanAlone(buf, sig, cursor) ==
    LET header_pos == Find(buf, sig.header, cursor)
        footer_pos == Find(buf, sig.footer, header_pos + Len(sig.header))
    IN  IF header_pos = -1 THEN <<>>
        ELSE IF footer_pos /= -1
            THEN <<[header_pos |-> header_pos, footer_pos |-> footer_pos,
                    data |-> CarvedData(buf, header_pos, footer_pos, sig.footer)]>>
                 \o ScanAlone(buf, sig,
                        OffsetAfterCarve(header_pos, sig.header, footer_pos, sig.footer))
            ELSE ScanAlone(buf, sig, OffsetAfterSkip(buf, header_pos, sig.header))

\* a second signature that matches what JPEG matches: any start-of-image marker
SOI_SIGNATURE ==
    [name |-> "SOI", header |-> <<255, 216>>, footer |-> <<255, 217>>,
     ext |-> "jpg"]

\* the registries passed in: the default one, and two a caller builds
Registries ==
    { FILE_SIGNATURES,
      <<FILE_SIGNATURES[2], FILE_SIGNATURES[1]>>,
      <<FILE_SIGNATURES[1], SOI_SIGNATURE>> }

\* registries with a zero-length header or footer
EmptyPatternRegistries ==
    { <<[name |-> "H", header |-> <<255>>, footer |-> <<>>, ext |-> "bin"]>>,
      <<[name |-> "F", header |-> <<>>, footer |-> <<255>>, ext |-> "bin"]>>,
      <<[name |-> "E", header |-> <<>>, footer |-> <<>>, ext |-> "bin"]>> }

InitCarveWith(registries) ==
    /\ srcContent = <<>>
    /\ imgContent = <<>>
    /\ BLOCK_SIZE = 1
    /\ VerifyIdle
    /\ ImagingIdle
    /\ buffer \in Buffers
    /\ signatures \in registries
    /\ CarveIdle
    /\ MainIdle
    /\ GuiIdle

InitCarve == InitCarveWith(Registries)

InitCarveAny == InitCarveWith(EmptyPatternRegistries)

NextCarve ==
    \/ CarveMakedirs
    \/ CarveMakedirsFails
    \/ CarveRead
    \/ CarveReadFails
    \/ CarveNoHeader
    \/ CarveExtract
    \/ CarveWriteFails
    \/ CarveSkipHeader
    \/ CarveAgain

SpecCarve == InitCarve /\ [][NextCarve]_vars

\* the same function called with a registry that has zero-length patterns
SpecCarveAny == InitCarveAny /\ [][NextCarve]_vars

(***************************************************************************)
(* acquisition.py run as a script: the acquisition, then the verification  *)
(***************************************************************************)
MainVerifies_Always(ok) == TRUE

\* line 123: if success
MainVerifies(ok) == ok = "True"

\* the sizes of the source and image files the script verifies
MainFiles == BytesUpTo(MaxMainLen)

\* line 121: perform_forensic_imaging has returned, the pair is unpacked (its
\* except clauses catch every Exception, so it always returns)
MainGotResult ==
    /\ mpc = "acquire"
    /\ ipc = "done"
    /\ ~iraised
    /\ success' = iresult.success
    /\ log_path' = iresult.log_path
    /\ mpc' = "branch"
    /\ UNCHANGED verification_success
    /\ UNCHANGED <<hashVars, verifyVars, imagingVars, childVars, carveVars, guiVars>>

\* lines 123-125: success is true, verify_integrity is entered (line 85) on
\* the source and the image as they are on disk then
MainCallsVerify ==
    /\ mpc = "branch"
    /\ MainVerifies(success)
    /\ mpc' = "verify"
    /\ vpc = "start"
    /\ vpc' = "hash_image"
    /\ srcContent' \in MainFiles
    /\ imgContent' \in MainFiles
    /\ HashCall("image")
    /\ UNCHANGED <<BLOCK_SIZE, image_hash, source_hash, hcalls, vbranch, vret,
                   voutcomes>>
    /\ UNCHANGED <<success, log_path, verification_success>>
    /\ UNCHANGED <<imagingVars, childVars, carveVars, guiVars>>

\* line 123: success is false, the script ends without verifying
MainSkipsVerify ==
    /\ mpc = "branch"
    /\ ~MainVerifies(success)
    /\ mpc' = "end"
    /\ UNCHANGED <<success, log_path, verification_success>>
    /\ UNCHANGED <<hashVars, verifyVars, imagingVars, childVars, carveVars, guiVars>>

\* lines 125-130: verify_integrity has returned, the verdict is printed
MainVerified ==
    /\ mpc = "verify"
    /\ vpc = "done"
    /\ verification_success' = vret
    /\ mpc' = "end"
    /\ UNCHANGED <<success, log_path>>
    /\ UNCHANGED <<hashVars, verifyVars, imagingVars, childVars, carveVars, guiVars>>

InitMain ==
    /\ srcContent = <<>>
    /\ imgContent = <<>>
    /\ BLOCK_SIZE = 1
    /\ VerifyIdle
    /\ ImagingIdle
    /\ buffer = <<>>
    /\ signatures = <<>>
    /\ CarveIdle
    /\ MainIdle
    /\ GuiIdle

NextMain ==
    \/ ImagingSpawn
    \/ ImagingSpawnFails
    \/ ImagingReadLine
    \/ ImagingStderrEof
    \/ ImagingWait
    \/ ImagingFailed
    \/ ImagingSucceeded
    \/ ChildWrite
    \/ ChildExit
    \/ ChildKilled
    \/ MainGotResult
    \/ MainCallsVerify
    \/ MainSkipsVerify
    \/ HashOpenOk
    \/ HashOpenFail
    \/ HashReadChunk
    \/ HashReadEof
    \/ HashReadFail
    \/ VerifyHashSource
    \/ VerifyGotSource
    \/ VerifyCheck
    \/ MainVerified

SpecMain == InitMain /\ [][NextMain]_vars

(***************************************************************************)
(* main.py: the window's menu handlers run one at a time in the GUI        *)
(* thread; each ForensicWorker runs its task in a thread of its own and    *)
(* its finished signal is queued to the GUI thread.  Console and status    *)
(* bar texts are not part of the state.                                    *)
(***************************************************************************)
\* what the file dialogs return when the user picks a file
Devices == {"/dev/sdb"}
OutputImages == {"a.dd", "b.dd"}
ImagePaths == {"a.dd", "b.dd"}

\* line 244
CarvingOutputDir == "carved_files_output"

\* the workers whose task is executing: started and finished not yet emitted
RunningWorkers == {i \in 1..Len(workers) : workers[i].state = "running"}

\* lines 209-213 and 246-248: ForensicWorker(func, ...), kept in
\* self.current_worker, finished connected to task_finished, start()
StartWorker(func, out) ==
    /\ workers' = Append(workers, [func |-> func, out |-> out, state |-> "running"])
    /\ current_worker' = Len(workers) + 1

\* lines 223-228: an image is picked in the dialog
LoadImage ==
    /\ app = "running"
    /\ \E path \in ImagePaths : current_image_path' = path
    /\ UNCHANGED <<workers, current_worker, events, app>>
    /\ UNCHANGED <<hashVars, verifyVars, imagingVars, childVars, carveVars, mainVars>>

\* lines 204-214 with a source and an output picked in the two dialogs
StartAcquisition ==
    /\ app = "running"
    /\ Len(workers) < MaxWorkers
    /\ \E source_device \in Devices, output_image \in OutputImages :
        StartWorker("perform_forensic_imaging", output_image)
    /\ UNCHANGED <<current_image_path, events, app>>
    /\ UNCHANGED <<hashVars, verifyVars, imagingVars, childVars, carveVars, mainVars>>

\* lines 240-249; without a loaded image the handler only logs an error
StartCarving ==
    /\ app = "running"
    /\ Len(workers) < MaxWorkers
    /\ current_image_path /= "None"
    /\ StartWorker("perform_file_carving", CarvingOutputDir)
    /\ UNCHANGED <<current_image_path, events, app>>
    /\ UNCHANGED <<hashVars, verifyVars, imagingVars, childVars, carveVars, mainVars>>

\* lines 45-67: the task of a worker returns or raises, run emits finished
\* with the name of the function; the slot call is queued to the GUI thread
WorkerEmitsFinished ==
    /\ app = "running"
    /\ \E i \in RunningWorkers :
        /\ workers' = [workers EXCEPT ![i].state = "emitted"]
        /\ events' = Append(events, workers[i].func)
    /\ UNCHANGED <<current_image_path, current_worker, app>>
    /\ UNCHANGED <<hashVars, verifyVars, imagingVars, childVars, carveVars, mainVars>>

\* run has returned and the thread of the worker ends
WorkerThreadEnds ==
    /\ app = "running"
    /\ \E i \in 1..Len(workers) :
        /\ workers[i].state = "emitted"
        /\ workers' = [workers EXCEPT ![i].state = "finished"]
    /\ UNCHANGED <<current_image_path, current_worker, events, app>>
    /\ UNCHANGED <<hashVars, verifyVars, imagingVars, childVars, carveVars, mainVars>>

\* run has returned, the thread has not ended yet and the window no longer
\* holds the worker: the QThread object can be destroyed while its thread
\* is running, which aborts the process
WorkerDestroyedWhileRunning ==
    /\ app = "running"
    /\ \E i \in 1..Len(workers) :
        /\ workers[i].state = "emitted"
        /\ current_worker /= i
    /\ app' = "aborted"
    /\ UNCHANGED <<current_image_path, workers, current_worker, events>>
    /\ UNCHANGED <<hashVars, verifyVars, imagingVars, childVars, carveVars, mainVars>>

\* lines 197-202: the slot runs in the GUI thread for the oldest queued signal
task_finished ==
    /\ app = "running"
    /\ events /= <<>>
    /\ events' = Tail(events)
    /\ current_worker' = 0
    /\ UNCHANGED <<current_image_path, workers, app>>
    /\ UNCHANGED <<hashVars, verifyVars, imagingVars, childVars, carveVars, mainVars>>

InitGui ==
    /\ srcContent = <<>>
    /\ imgContent = <<>>
    /\ BLOCK_SIZE = 1
    /\ VerifyIdle
    /\ ImagingIdle
    /\ buffer = <<>>
    /\ signatures = <<>>
    /\ CarveIdle
    /\ MainIdle
    /\ GuiIdle

NextGui ==
    \/ LoadImage
    \/ StartAcquisition
    \/ StartCarving
    \/ WorkerEmitsFinished
    \/ WorkerThreadEnds
    \/ WorkerDestroyedWhileRunning
    \/ task_finished

SpecGui == InitGui /\ [][NextGui]_vars

(***************************************************************************)
(* Properties of verify_integrity and calculate_hash_from_file             *)
(* (specification SpecVerify).                                             *)
(***************************************************************************)
RECURSIVE Concat(_)
Concat(chunks) ==
    IF chunks = <<>> THEN <<>> ELSE Head(chunks) \o Concat(Tail(chunks))

NoHashFault == \A i \in 1..Len(hcalls) : hcalls[i].fault = "none"

\* the two sources have the same length and differ in exactly one byte
DifferInOneByte(a, b) ==
    /\ Len(a) = Len(b)
    /\ Cardinality({i \in 1..Len(a) : a[i] /= b[i]}) = 1

\* C1: verify_integrity returns True only when both calculate_hash_from_file
\* calls returned a digest (neither raised, neither returned None) and the two
\* digests, of the same algorithm, are equal.
C1_TrueOnlyOnTwoEqualDigests ==
    vret = "True" =>
        /\ Len(hcalls) = 2
        /\ \A i \in 1..2 : hcalls[i].fault = "none" /\ ~hcalls[i].result.none
        /\ hcalls[1].result.algorithm = hcalls[2].result.algorithm
        /\ hcalls[1].result.hex = hcalls[2].result.hex

\* True is returned for two non-empty sources
C1_Witness == vret = "True" /\ srcContent /= <<>> /\ Len(hcalls) = 2

\* C2: the value verify_integrity returns when a digest could not be computed
\* is never the value it returns when both digests were computed and differ.
C2_HashFailureDistinctFromMismatch ==
    \A a, b \in voutcomes :
        (a[1] = "hashfail" /\ b[1] = "mismatch") => a[2] /= b[2]

\* C3: when neither hashing call failed, verify_integrity returns True exactly
\* when the two sources have the same bytes (empty sources included).
C3_MatchIffSameContent ==
    (vpc = "done" /\ NoHashFault) =>
        (vret = "True" <=> srcContent = imgContent)

\* a one-byte difference is reported after an earlier run reported a match
C3_Witness ==
    /\ vpc = "done"
    /\ NoHashFault
    /\ DifferInOneByte(srcContent, imgContent)
    /\ vret = "False"
    /\ <<"match", "True">> \in voutcomes

\* C8: calculate_hash_from_file returns None whenever open or a read raised,
\* however many chunks were fed before; a digest is returned only after a read
\* at the end of the source returned no data.
C8_NoPartialDigest ==
    hpc = "done" =>
        /\ (hfault /= "none" => hresult = None)
        /\ (~hresult.none =>
                /\ hfault = "none"
                /\ hpos = Len(Content(hfile))
                /\ FileRead(Content(hfile), hpos, BLOCK_SIZE) = <<>>)

\* a read raised after a chunk was fed, with more of the source left to read
C8_Witness ==
    /\ hpc = "done"
    /\ hfault = "read"
    /\ hfed /= <<>>
    /\ hpos < Len(Content(hfile))
    /\ hresult = None

\* C9: when hashing succeeds, the chunks fed to the accumulator are non-empty,
\* at most BLOCK_SIZE long, and concatenate to the whole source, so the digest
\* is the digest of the source fed as one block, whatever BLOCK_SIZE is.
C9_BlockSizeInvariant ==
    (hpc = "done" /\ hfault = "none") =>
        /\ \A i \in 1..Len(hfed) : hfed[i] /= <<>> /\ Len(hfed[i]) <= BLOCK_SIZE
        /\ Concat(hfed) = Content(hfile)
        /\ hresult = Hexdigest(HASH_ALGORITHM,
                               HashUpdate(HashNew(HASH_ALGORITHM), Content(hfile)))

\* a source hashed in several blocks, the last one short
C9_Witness ==
    /\ hpc = "done"
    /\ hfault = "none"
    /\ Len(hfed) >= 2
    /\ Len(hfed[Len(hfed)]) < BLOCK_SIZE
    /\ ~hresult.none

(***************************************************************************)
(* Properties of perform_forensic_imaging (specification SpecImaging).     *)
(***************************************************************************)
Range(seq) == {seq[i] : i \in 1..Len(seq)}

\* C4: when the child exits with a non-zero code, the call reports
\* success=false and every line the child wrote to stderr, with or without a
\* progress marker, is in the error content that is reported.
C4_StderrSurfacedOnFailure ==
    (ipc = "done" /\ ikind = "nonzero") =>
        /\ iresult.success = "False"
        /\ Range(stderrWritten) \subseteq Range(error_output)

\* C5: no reachable state has the child blocked writing to a full pipe while
\* the controller is blocked reading the other stream or waiting for exit.
C5_NoBackpressureDeadlock ==
    ~ /\ ChildBlocked
      /\ \/ ipc = "drain" /\ stderrPipe = <<>>
         \/ ipc = "wait"

\* C6: the pair returned when the executable is missing differs from the pair
\* returned for a non-zero exit code and from the pair returned for an
\* unexpected exception.
C6_ToolNotFoundDistinct ==
    \A a, b \in ioutcomes :
        (a[1] = "notfound" /\ b[1] \in {"nonzero", "exception"}) => a[2] /= b[2]

\* C7: when perform_forensic_imaging is over it has returned, not raised;
\* success is true exactly when a child was started and exited with code 0;
\* every other exit status, a kill by signal included, gives success=false,
\* and success=false comes with no log path.
C7_SuccessIffExitZero ==
    ipc = "done" =>
        /\ ~iraised
        /\ iresult.success \in {"True", "False"}
        /\ iresult.success = "True" <=>
                (childState = "exited" /\ childCode = <<0>>)
        /\ iresult.success = "False" => iresult.log_path = "None"
        /\ iresult.success = "True" => iresult.log_path = "log_path"

\* the child was killed by a signal and the call returned (False, None)
C7_Witness ==
    /\ ipc = "done"
    /\ childCode = <<-15>>
    /\ iresult = [success |-> "False", log_path |-> "None"]
    /\ <<"ok", [success |-> "True", log_path |-> "log_path"]>> \in ioutcomes

(***************************************************************************)
(* Properties of perform_file_carving (specification SpecCarve).           *)
(***************************************************************************)
\* p is the first position >= from where sub occurs in buf
FirstOccurrence(buf, sub, from, p) ==
    /\ p >= from
    /\ OccursAt(buf, sub, p)
    /\ \A q \in from..(p - 1) : ~OccursAt(buf, sub, q)

\* Scenario A: the JPEG header, b"payload", the JPEG footer, nothing else
ScenarioA == FILE_SIGNATURES[1].header \o Payload \o FILE_SIGNATURES[1].footer

\* C10: every artifact written is the span [headerPos, footerPos + len(footer))
\* of the buffer, headerPos the first header at or after the cursor and
\* footerPos the first footer at or after the end of that header; it starts
\* with the header and ends with the footer; and the buffer of Scenario A
\* yields exactly one artifact, the 13 bytes of the whole buffer.
C10_ArtifactIsHeaderToFooterSpan ==
    /\ \A i \in 1..Len(artifacts) :
        LET a == artifacts[i]
            sig == signatures[a.sig]
            hl == Len(sig.header)
            fl == Len(sig.footer)
        IN  /\ FirstOccurrence(buffer, sig.header, a.cursor, a.header_pos)
            /\ FirstOccurrence(buffer, sig.footer, a.header_pos + hl, a.footer_pos)
            /\ Len(a.data) = a.footer_pos + fl - a.header_pos
            /\ \A k \in 1..Len(a.data) : a.data[k] = buffer[a.header_pos + k]
            /\ SubSeq(a.data, 1, hl) = sig.header
            /\ SubSeq(a.data, Len(a.data) - fl + 1, Len(a.data)) = sig.footer
    /\ (buffer = ScenarioA /\ cpc = "done" /\ cfault = "none") =>
            LET jpeg == {i \in 1..Len(artifacts) :
                            signatures[artifacts[i].sig].name = "JPEG"}
            IN  /\ Cardinality(jpeg) = 1
                /\ \A i \in jpeg :
                        /\ Len(artifacts[i].data) = 13
                        /\ artifacts[i].data = buffer
                /\ signatures = FILE_SIGNATURES =>
                        /\ Len(artifacts) = 1
                        /\ artifacts[1].path = <<"carved", "JPEG", 0, "jpg">>
                        /\ cret = <<1>>

\* the run over the buffer of Scenario A is over and wrote its one artifact
C10_Witness ==
    /\ buffer = ScenarioA
    /\ signatures = FILE_SIGNATURES
    /\ cpc = "done"
    /\ cfault = "none"
    /\ Len(artifacts) = 1
    /\ cret = <<1>>

\* Scenario C: two JPEG header/payload/footer runs back to back
ScenarioC == ScenarioA \o ScenarioA

\* the positions of the artifacts of the signature named name, in writing order
IndexesOf(name) ==
    {i \in 1..Len(artifacts) : signatures[artifacts[i].sig].name = name}

\* C11: two artifacts of one signature never overlap and come in increasing
\* offset order: the later one starts at or after the end of the earlier one,
\* and further right; the two back-to-back JPEG runs of Scenario C give exactly
\* two JPEG artifacts, the left one written first.
C11_SpansDisjointInOrder ==
    /\ \A i, j \in 1..Len(artifacts) :
        (i < j /\ artifacts[i].sig = artifacts[j].sig) =>
            /\ artifacts[j].header_pos >=
                  artifacts[i].footer_pos + Len(signatures[artifacts[i].sig].footer)
            /\ artifacts[j].header_pos > artifacts[i].header_pos
    /\ (buffer = ScenarioC /\ cpc = "done" /\ cfault = "none") =>
            /\ Cardinality(IndexesOf("JPEG")) = 2
            /\ \E i, j \in IndexesOf("JPEG") :
                /\ i < j
                /\ artifacts[i].header_pos = 0
                /\ artifacts[j].header_pos = Len(ScenarioA)
                /\ artifacts[i].data = ScenarioA
                /\ artifacts[j].data = ScenarioA

\* the run over Scenario C with the default registry is over with two artifacts
C11_Witness ==
    /\ buffer = ScenarioC
    /\ signatures = FILE_SIGNATURES
    /\ cpc = "done"
    /\ cfault = "none"
    /\ Len(artifacts) = 2
    /\ artifacts[1].header_pos < artifacts[2].header_pos

\* the signature at index j has a header in the buffer whose first occurrence
\* has no footer anywhere after it
FirstHeaderUnterminated(j) ==
    LET sig == signatures[j]
        p == Find(buffer, sig.header, 0)
    IN  /\ p /= -1
        /\ \A q \in (p + Len(sig.header))..Len(buffer) : ~OccursAt(buffer, sig.footer, q)

\* C12: an iteration that finds a header with no footer after it writes
\* nothing for that header, raises nothing, and leaves the cursor at exactly
\* headerPos + len(header), from where the scan goes on; a buffer whose header
\* has no later footer yields no artifact of that signature.
C12_UnterminatedHeaderSkipped ==
    /\ \A i \in 1..Len(trail) :
        trail[i].kind = "skip" =>
            LET t == trail[i]
                sig == signatures[t.sig]
            IN  /\ FirstOccurrence(buffer, sig.header, t.cursor, t.header_pos)
                /\ \A q \in (t.header_pos + Len(sig.header))..Len(buffer) :
                        ~OccursAt(buffer, sig.footer, q)
                /\ t.next = t.header_pos + Len(sig.header)
                /\ \A k \in 1..Len(artifacts) :
                        ~(artifacts[k].sig = t.sig
                            /\ artifacts[k].header_pos = t.header_pos)
    /\ (trail /= <<>> /\ trail[Len(trail)].kind = "skip") =>
            /\ cpc = "scan"
            /\ cfault = "none"
            /\ ~craised
            /\ offset = trail[Len(trail)].next
            /\ sigIdx = trail[Len(trail)].sig
    /\ (cpc = "done" /\ cfault = "none") =>
            \A j \in 1..Len(signatures) :
                FirstHeaderUnterminated(j) =>
                    \A k \in 1..Len(artifacts) : artifacts[k].sig /= j

\* a run that skipped a JPEG header with bytes after it is over, without artifact
C12_Witness ==
    /\ signatures = FILE_SIGNATURES
    /\ cpc = "done"
    /\ cfault = "none"
    /\ cret = <<0>>
    /\ \E i \in 1..Len(trail) :
            /\ trail[i].kind = "skip"
            /\ trail[i].sig = 1
            /\ trail[i].next < Len(buffer)

\* C13: the k-th artifact written in a run is named with sequence number k-1,
\* whichever signature matched, so no two artifacts of a run share a path and
\* each one's file holds its own bytes.
C13_SharedCounterUniquePaths ==
    /\ \A k \in 1..Len(artifacts) :
        LET sig == signatures[artifacts[k].sig]
        IN  /\ artifacts[k].path = <<"carved", sig.name, k - 1, sig.ext>>
            /\ [path |-> artifacts[k].path, data |-> artifacts[k].data] \in files
    /\ \A i, j \in 1..Len(artifacts) :
        i /= j => artifacts[i].path /= artifacts[j].path

\* two artifacts of different signatures were written in one run
C13_Witness ==
    /\ Len(artifacts) >= 2
    /\ artifacts[1].sig /= artifacts[2].sig
    /\ artifacts[2].path[3] = 1

\* C14: the count the function returns is the number of artifact files it wrote
\* in that run, on every exit path, and the artifacts are written in discovery
\* order: all of the first signature, then all of the second, and so on.
C14_ReturnedCountIsArtifactsWritten ==
    /\ (cpc = "done" /\ cret /= <<>>) => cret = <<Len(artifacts)>>
    /\ \A i, j \in 1..Len(artifacts) :
        i < j => artifacts[i].sig <= artifacts[j].sig

\* the signature at index j was scanned to the end of the buffer
ScannedToEnd(j) ==
    \E i \in 1..Len(trail) : trail[i].sig = j /\ trail[i].kind = "end"

\* C15: a failed write of an artifact of one signature does not stop the run:
\* every later signature of the registry is still scanned to the end and its
\* spans are written.
C15_WriteFailureIsolatedPerSignature ==
    (cpc = "done" /\ cfault \in {"open", "write"}) =>
        \A j \in (sigIdx + 1)..Len(signatures) :
            /\ ScannedToEnd(j)
            /\ Len(ScanAlone(buffer, signatures[j], 0)) =
                  Cardinality({k \in 1..Len(artifacts) : artifacts[k].sig = j})

\* C16: when the output directory cannot be created or a carved file cannot be
\* written, the failure reaches the caller as an exception, and every artifact
\* written before it is still in the output directory with the same bytes.
C16_OutputFailureRaisedArtifactsKept ==
    (cpc = "done" /\ cfault \in {"makedirs", "open", "write"}) =>
        /\ craised
        /\ cret = <<>>
        /\ \A k \in 1..Len(artifacts) :
            [path |-> artifacts[k].path, data |-> artifacts[k].data] \in files

\* the spans written for the signature at index j, in writing order
SpansOf(j) ==
    LET s == SelectSeq(artifacts, LAMBDA a : a.sig = j)
    IN  [k \in 1..Len(s) |->
            [header_pos |-> s[k].header_pos, footer_pos |-> s[k].footer_pos,
             data |-> s[k].data]]

\* C17: the spans extracted for a signature are those of a scan of the whole
\* buffer for that signature alone, from cursor 0, whatever else is registered
\* and whatever it matched; overlapping spans of two signatures are both kept.
C17_SignatureScannedIndependently ==
    /\ (cpc = "done" /\ cfault = "none") =>
        \A j \in 1..Len(signatures) :
            SpansOf(j) = ScanAlone(buffer, signatures[j], 0)
    /\ \A i \in 1..Len(trail) :
        (i = 1 \/ trail[i - 1].sig /= trail[i].sig) => trail[i].cursor = 0

\* two signatures each had a span extracted and the two spans overlap
C17_Witness ==
    /\ cpc = "done"
    /\ cfault = "none"
    /\ \E i, j \in 1..Len(artifacts) :
        /\ artifacts[i].sig /= artifacts[j].sig
        /\ artifacts[i].header_pos <= artifacts[j].header_pos
        /\ artifacts[j].header_pos < artifacts[i].footer_pos
        /\ artifacts[i].data /= <<>>
        /\ artifacts[j].data /= <<>>

\* C19: a second run on the same buffer with the same registry into an empty
\* output directory returns the same count and writes the same artifacts, with
\* the same names and bytes, as the first.
C19_SecondRunSameArtifacts ==
    (cpc = "done" /\ cfault = "none" /\ prevRun /= <<>>) =>
        /\ cret = prevRun[1].count
        /\ artifacts = prevRun[1].artifacts
        /\ files = prevRun[1].files

\* a second run that wrote artifacts is over
C19_Witness ==
    /\ cpc = "done"
    /\ cfault = "none"
    /\ prevRun /= <<>>
    /\ Len(prevRun[1].artifacts) >= 2
    /\ Len(artifacts) >= 2

\* C20: in each iteration of the scan loop of a signature the cursor strictly
\* increases, so the loop runs at most len(buffer) + 1 times per signature,
\* zero-length header and footer patterns included.
C20_ScanLoopBounded ==
    /\ \A i \in 1..Len(trail) :
        trail[i].kind \in {"carve", "skip"} => trail[i].next > trail[i].cursor
    /\ \A j \in 1..Len(signatures) : Iterations(j) <= Len(buffer) + 1

\* a hash of the source or of the image has been started
VerificationStarted == vpc /= "start" \/ hpc /= "idle" \/ hcalls /= <<>>

\* C18: the script enters verify_integrity only after perform_forensic_imaging
\* returned success = True for the acquisition; when the child exits with code
\* 1 the result is success = False and no hash of source or image is ever
\* started.
C18_VerifyOnlyAfterSuccessfulImaging ==
    /\ VerificationStarted =>
        /\ ipc = "done"
        /\ iresult.success = "True"
        /\ success = "True"
        /\ returncode = <<0>>
    /\ (ipc = "done" /\ returncode = <<1>>) =>
        /\ iresult.success = "False"
        /\ ~VerificationStarted
    /\ (mpc /= "acquire" /\ success /= "True") => ~VerificationStarted

\* the script has ended after a child that exited with code 1
C18_Witness ==
    /\ mpc = "end"
    /\ childCode = <<1>>
    /\ returncode = <<1>>
    /\ success = "False"
    /\ verification_success = "unset"

\* C21: once the scan of a signature has met a header with no footer after it,
\* no artifact is extracted for that signature later in the run: every header
\* found later in that scan is unterminated too, and every artifact of the
\* signature ends at or before the first unterminated header.
C21_NothingCarvedAfterUnterminatedHeader ==
    /\ \A i, j \in 1..Len(trail) :
        (i < j /\ trail[i].sig = trail[j].sig /\ trail[i].kind = "skip") =>
            /\ trail[j].kind \in {"skip", "end"}
            /\ trail[j].kind = "skip" => trail[j].header_pos >= trail[i].header_pos
    /\ \A i \in 1..Len(trail) : \A k \in 1..Len(artifacts) :
        (trail[i].kind = "skip" /\ artifacts[k].sig = trail[i].sig) =>
            artifacts[k].footer_pos + Len(signatures[artifacts[k].sig].footer)
                <= trail[i].header_pos

\* a scan that carved a span, then met two unterminated headers, is over
C21_Witness ==
    /\ cpc = "done"
    /\ cfault = "none"
    /\ \E i, j \in 1..Len(trail) : \E k \in 1..Len(artifacts) :
        /\ i < j
        /\ trail[i].sig = trail[j].sig
        /\ trail[i].kind = "skip"
        /\ trail[j].kind = "skip"
        /\ artifacts[k].sig = trail[i].sig

\* C22: the window never has two worker tasks running at the same time:
\* at most one started worker is still running, current_worker refers to it
\* while it runs, and no two running workers write to the same output path
\* (the fixed carving directory, or the same acquisition output).
C22_AtMostOneWorkerRunning ==
    /\ Cardinality(RunningWorkers) <= 1
    /\ \A i \in RunningWorkers : current_worker = i
    /\ \A i, j \in RunningWorkers : i /= j => workers[i].out /= workers[j].out

=============================================================================
